---- MODULE Spec2Model ----
(***************************************************************************)
(* Model of catcryption-mvp (src/app.js): a browser app that keeps one     *)
(* keypair and a contact list in localStorage and seals / opens text       *)
(* tokens "senderPublicKey:nonce:ciphertext" with libsodium's crypto_box.  *)
(*                                                                         *)
(* Several devices run the same app, each with its own localStorage.       *)
(* Tokens and public keys travel between devices as text (copy / paste,    *)
(* QR code).                                                               *)
(*                                                                         *)
(* Byte strings are symbolic terms (a public key, a secret key, a nonce,   *)
(* a box); JavaScript strings are sequences of segments, a segment being   *)
(* one character or the base64 text of one byte string.                    *)
(***************************************************************************)
EXTENDS Integers, Sequences, FiniteSets

(***************************************************************************)
(* Bounds of the model.                                                    *)
(***************************************************************************)
(* The handlers can be called without end, and keypairs, nonces, contacts   *)
(* and scanner sessions can be made without end.  A run is explored within *)
(* one of two scopes, each capping what a run may make: the messaging      *)
(* scope has the keypairs and tokens the claims about sealing and opening  *)
(* need, the address-book scope the contacts and the scanner session the   *)
(* claims about the contact list need.                                     *)
(***************************************************************************)
\* messaging scope: keypairs crypto_box_keypair() hands out over a run
MsgKeys == 3
\* messaging scope: nonces randombytes_buf() hands out over a run
MsgNonces == 2
\* messaging scope: contacts stored over all devices
MsgContacts == 1
\* messaging scope: QR scanner sessions started over a run
MsgScans == 0
\* address-book scope: keypairs crypto_box_keypair() hands out over a run
BookKeys == 1
\* address-book scope: nonces randombytes_buf() hands out over a run
BookNonces == 1
\* address-book scope: contacts stored over all devices
BookContacts == 2
\* address-book scope: QR scanner sessions started over a run
BookScans == 1

MsgScope == [keys |-> MsgKeys, nonces |-> MsgNonces, contacts |-> MsgContacts,
             scans |-> MsgScans]
BookScope == [keys |-> BookKeys, nonces |-> BookNonces, contacts |-> BookContacts,
              scans |-> BookScans]

Devices == {"A", "B", "C"}

(***************************************************************************)
(* libsodium constants.                                                    *)
(***************************************************************************)
crypto_box_PUBLICKEYBYTES == 32
crypto_box_SECRETKEYBYTES == 32
crypto_box_NONCEBYTES == 24
crypto_box_MACBYTES == 16

(***************************************************************************)
(* JavaScript strings.  Ch(c) is the character c; B64(b) is the text       *)
(* sodium.to_base64 produces for the byte string b (URL-safe alphabet, no  *)
(* padding: it contains no ':' and no whitespace).                         *)
(***************************************************************************)
Ch(c) == [k |-> "ch", c |-> c]
B64(b) == [k |-> "b64", v |-> b]

SP == Ch(" ")
COLON == Ch(":")
BANG == Ch("!")
H == Ch("h")

\* String.prototype.trim: drops leading and trailing whitespace
RECURSIVE TrimStart(_)
TrimStart(s) ==
  IF s # <<>> /\ Head(s) = SP THEN TrimStart(Tail(s)) ELSE s

RECURSIVE TrimEnd(_)
TrimEnd(s) ==
  IF s # <<>> /\ s[Len(s)] = SP THEN TrimEnd(SubSeq(s, 1, Len(s) - 1)) ELSE s

trim(s) == TrimEnd(TrimStart(s))

\* String.prototype.split(":"): the pieces between the separators; a string
\* without separator (the empty string too) gives one piece
RECURSIVE SplitFrom(_, _)
SplitFrom(s, cur) ==
  IF s = <<>> THEN <<cur>>
  ELSE IF Head(s) = COLON THEN <<cur>> \o SplitFrom(Tail(s), <<>>)
  ELSE SplitFrom(Tail(s), Append(cur, Head(s)))

split(s) == SplitFrom(s, <<>>)

(***************************************************************************)
(* Byte strings.                                                           *)
(*   PK(id, hi)  the 32-byte public key of keypair id; hi is the most      *)
(*               significant bit of its last byte, which X25519 ignores.   *)
(*               id 0 is a point nobody holds the secret key of.           *)
(*   SK(id)      the 32-byte secret key of keypair id                      *)
(*   N(n)        a 24-byte nonce                                           *)
(*   Utf8(s)     the UTF-8 bytes of the string s                           *)
(*   Box(..)     MAC and ciphertext of crypto_box_easy; ok = FALSE after   *)
(*               one of its bytes was changed                              *)
(*   NoBytes     the empty byte string                                     *)
(***************************************************************************)
PK(id, hi) == [t |-> "pk", id |-> id, hi |-> hi]
SK(id) == [t |-> "sk", id |-> id]
N(n) == [t |-> "nonce", n |-> n]
Utf8(s) == [t |-> "utf8", s |-> s]
Box(m, n, key, ok) == [t |-> "box", m |-> m, n |-> n, key |-> key, ok |-> ok]
NoBytes == [t |-> "none"]

ByteLength(b) ==
  CASE b.t = "pk" -> crypto_box_PUBLICKEYBYTES
    [] b.t = "sk" -> crypto_box_SECRETKEYBYTES
    [] b.t = "nonce" -> crypto_box_NONCEBYTES
    [] b.t = "utf8" -> Len(b.s)
    [] b.t = "box" -> crypto_box_MACBYTES + Len(b.m.s)
    [] OTHER -> 0

\* results of calls that may throw
Ok(v) == [ok |-> TRUE, val |-> v]
Throw(msg) == [ok |-> FALSE, err |-> msg]

\* sodium.to_base64
to_base64(b) == IF b = NoBytes THEN <<>> ELSE <<B64(b)>>

\* sodium.from_base64: the empty string decodes to no bytes, the text of one
\* byte string to that byte string; any other text throws.  (The typed
\* characters of the model never form valid base64: ' ', '!' and ':' are
\* outside the alphabet, and one to three 'h' leave non-zero trailing bits.)
from_base64(s) ==
  IF s = <<>> THEN Ok(NoBytes)
  ELSE IF Len(s) = 1 /\ s[1].k = "b64" THEN Ok(s[1].v)
  ELSE Throw("invalid input")

\* sodium.from_string / sodium.to_string
from_string(s) == Utf8(s)
to_string(b) == b.s

(***************************************************************************)
(* crypto_box.  The key of a box is the X25519 shared secret of one        *)
(* keypair's secret key and another's public key: the same for (skA, pkB)  *)
(* and (skB, pkA), so it is the set of the two keypair ids.  X25519 masks  *)
(* the top bit of the public key, so hi does not enter the shared secret.  *)
(***************************************************************************)
PointOf(b) == IF b.t = "pk" THEN b.id ELSE 0
ScalarOf(b) == IF b.t = "sk" THEN b.id ELSE 0
SharedKey(publicKey, privateKey) == {PointOf(publicKey), ScalarOf(privateKey)}

\* sodium.crypto_box_keypair, drawing keypair number id
crypto_box_keypair(id) == [publicKey |-> PK(id, 0), privateKey |-> SK(id)]

\* sodium.crypto_box_easy: checks the lengths of its arguments, then seals
crypto_box_easy(message, nonce, publicKey, privateKey) ==
  IF ByteLength(nonce) # crypto_box_NONCEBYTES THEN Throw("invalid nonce length")
  ELSE IF ByteLength(publicKey) # crypto_box_PUBLICKEYBYTES
    THEN Throw("invalid publicKey length")
  ELSE IF ByteLength(privateKey) # crypto_box_SECRETKEYBYTES
    THEN Throw("invalid privateKey length")
  ELSE Ok(Box(message, nonce, SharedKey(publicKey, privateKey), TRUE))

\* sodium.crypto_box_open_easy: checks the lengths of its arguments, then
\* verifies the MAC under the shared key and the nonce and decrypts
crypto_box_open_easy(ciphertext, nonce, publicKey, privateKey) ==
  IF ByteLength(ciphertext) < crypto_box_MACBYTES THEN Throw("ciphertext is too short")
  ELSE IF ByteLength(nonce) # crypto_box_NONCEBYTES THEN Throw("invalid nonce length")
  ELSE IF ByteLength(publicKey) # crypto_box_PUBLICKEYBYTES
    THEN Throw("invalid publicKey length")
  ELSE IF ByteLength(privateKey) # crypto_box_SECRETKEYBYTES
    THEN Throw("invalid privateKey length")
  ELSE IF /\ ciphertext.t = "box"
          /\ ciphertext.ok
          /\ ciphertext.n = nonce
          /\ ciphertext.key = SharedKey(publicKey, privateKey)
    THEN Ok(ciphertext.m)
  ELSE Throw("incorrect key pair for the given ciphertext")

(***************************************************************************)
(* State.                                                                  *)
(***************************************************************************)
VARIABLES
  scope,         \* the scope of the run, fixed at the start
  myKeysItem,    \* per device: localStorage item "myKeys", <<>> when absent
  contactsItem,  \* per device: localStorage item "contacts", <<>> when absent
  html5QrCode,   \* per device: the scanner the variable html5QrCode of init()
                 \*   refers to, by its number, 0 for null
  stopping,      \* per device: the scanners whose stop() was called and has
                 \*   not completed yet
  keysDrawn,     \* keypairs crypto_box_keypair() has handed out
  noncesDrawn,   \* nonces randombytes_buf() has handed out
  scans,         \* scanner sessions started
  sent,          \* history: the tokens encryptBtn.onclick has produced, in order,
                 \*   each with the device, the plaintext typed and the contact key
  oldKeys,       \* history: per device, the keypairs overwritten there
  sessionAdds,   \* history: per scanner, the contacts its decode callbacks stored
  last           \* history: the last handler that ran, its inputs and outcome

vars == <<scope, myKeysItem, contactsItem, html5QrCode, stopping, keysDrawn, noncesDrawn,
          scans, sent, oldKeys, sessionAdds, last>>

\* generateKeyPair, drawing keypair number id
generateKeyPair(id) ==
  [publicKey |-> to_base64(crypto_box_keypair(id).publicKey),
   privateKey |-> to_base64(crypto_box_keypair(id).privateKey)]

\* saveMyKeys: the value of item "myKeys" after localStorage.setItem
saveMyKeys(keys) == <<keys>>

\* loadMyKeys: <<>> is null
loadMyKeys(d) == myKeysItem[d]

\* loadContacts: an absent item reads as the empty list
loadContacts(d) == IF contactsItem[d] = <<>> THEN <<>> ELSE contactsItem[d][1]

\* saveContacts: the value of item "contacts" after localStorage.setItem
saveContacts(contacts) == <<contacts>>

\* the token encryptMessage returns
Token(senderPublicKeyBase64, nonce, cipher) ==
  senderPublicKeyBase64 \o <<COLON>> \o to_base64(nonce) \o <<COLON>> \o to_base64(cipher)

\* encryptMessage, sealing to the device's own public key instead of the
\* recipient's
encryptMessage_sealsToSelf(d, recipientPublicKeyBase64, message, nonce) ==
  LET myKeys == loadMyKeys(d) IN
  IF myKeys = <<>> THEN Throw("No local keypair found")
  ELSE IF ~from_base64(recipientPublicKeyBase64).ok THEN from_base64(recipientPublicKeyBase64)
  ELSE LET cipher == crypto_box_easy(from_string(message), nonce,
                                     from_base64(myKeys[1].publicKey).val,
                                     from_base64(myKeys[1].privateKey).val) IN
       IF ~cipher.ok THEN cipher ELSE Ok(Token(myKeys[1].publicKey, nonce, cipher.val))

\* encryptMessage, decoding the recipient key before it looks for the identity
encryptMessage_parsesFirst(d, recipientPublicKeyBase64, message, nonce) ==
  LET myKeys == loadMyKeys(d) IN
  IF ~from_base64(recipientPublicKeyBase64).ok THEN from_base64(recipientPublicKeyBase64)
  ELSE IF myKeys = <<>> THEN Throw("No local keypair found")
  ELSE LET cipher == crypto_box_easy(from_string(message), nonce,
                                     from_base64(recipientPublicKeyBase64).val,
                                     from_base64(myKeys[1].privateKey).val) IN
       IF ~cipher.ok THEN cipher ELSE Ok(Token(myKeys[1].publicKey, nonce, cipher.val))

\* encryptMessage, with one nonce for every message instead of a random one
encryptMessage_fixedNonce(d, recipientPublicKeyBase64, message, nonce) ==
  LET myKeys == loadMyKeys(d) IN
  IF myKeys = <<>> THEN Throw("No local keypair found")
  ELSE IF ~from_base64(recipientPublicKeyBase64).ok THEN from_base64(recipientPublicKeyBase64)
  ELSE LET cipher == crypto_box_easy(from_string(message), N(0),
                                     from_base64(recipientPublicKeyBase64).val,
                                     from_base64(myKeys[1].privateKey).val) IN
       IF ~cipher.ok THEN cipher ELSE Ok(Token(myKeys[1].publicKey, N(0), cipher.val))

\* encryptMessage, joining the fields in the order nonce, sender key, ciphertext
encryptMessage_nonceFirst(d, recipientPublicKeyBase64, message, nonce) ==
  LET myKeys == loadMyKeys(d) IN
  IF myKeys = <<>> THEN Throw("No local keypair found")
  ELSE IF ~from_base64(recipientPublicKeyBase64).ok THEN from_base64(recipientPublicKeyBase64)
  ELSE LET cipher == crypto_box_easy(from_string(message), nonce,
                                     from_base64(recipientPublicKeyBase64).val,
                                     from_base64(myKeys[1].privateKey).val) IN
       IF ~cipher.ok THEN cipher
       ELSE Ok(to_base64(nonce) \o <<COLON>> \o myKeys[1].publicKey \o <<COLON>>
               \o to_base64(cipher.val))

\* encryptMessage, putting the wrong half of the keypair into the token
encryptMessage_sendsPrivateKey(d, recipientPublicKeyBase64, message, nonce) ==
  LET myKeys == loadMyKeys(d) IN
  IF myKeys = <<>> THEN Throw("No local keypair found")
  ELSE IF ~from_base64(recipientPublicKeyBase64).ok THEN from_base64(recipientPublicKeyBase64)
  ELSE LET cipher == crypto_box_easy(from_string(message), nonce,
                                     from_base64(recipientPublicKeyBase64).val,
                                     from_base64(myKeys[1].privateKey).val) IN
       IF ~cipher.ok THEN cipher ELSE Ok(Token(myKeys[1].privateKey, nonce, cipher.val))

\* encryptMessage on device d, nonce being what randombytes_buf returns
encryptMessage(d, recipientPublicKeyBase64, message, nonce) ==
  LET myKeys == loadMyKeys(d) IN
  IF myKeys = <<>> THEN Throw("No local keypair found")
  ELSE
    LET recipientPublicKey == from_base64(recipientPublicKeyBase64) IN
    IF ~recipientPublicKey.ok THEN recipientPublicKey
    ELSE
      LET cipher == crypto_box_easy(from_string(message), nonce,
                                    recipientPublicKey.val,
                                    from_base64(myKeys[1].privateKey).val) IN
      IF ~cipher.ok THEN cipher
      ELSE Ok(Token(myKeys[1].publicKey, nonce, cipher.val))

\* decryptMessage, checking the length of the nonce itself before the try
decryptMessage_checksLengthsFirst(d, encryptedMessage) ==
  LET myKeys == loadMyKeys(d)
      parts == split(encryptedMessage)
  IN
  IF myKeys = <<>> THEN Throw("No local keypair found")
  ELSE IF Len(parts) # 3 THEN Throw("Invalid message format")
  ELSE IF ~from_base64(parts[1]).ok THEN from_base64(parts[1])
  ELSE IF ~from_base64(parts[2]).ok THEN from_base64(parts[2])
  ELSE IF ~from_base64(parts[3]).ok THEN from_base64(parts[3])
  ELSE IF ByteLength(from_base64(parts[2]).val) # crypto_box_NONCEBYTES
    THEN Throw("Invalid nonce")
  ELSE LET plaintext == crypto_box_open_easy(from_base64(parts[3]).val,
                                             from_base64(parts[2]).val,
                                             from_base64(parts[1]).val,
                                             from_base64(myKeys[1].privateKey).val) IN
       IF plaintext.ok THEN Ok(to_string(plaintext.val))
       ELSE Throw("Failed to decrypt message. It may not be intended for you or is corrupted.")

\* decryptMessage, refusing a token whose sender is not among the contacts
decryptMessage_requiresContact(d, encryptedMessage) ==
  LET myKeys == loadMyKeys(d)
      parts == split(encryptedMessage)
  IN
  IF myKeys = <<>> THEN Throw("No local keypair found")
  ELSE IF Len(parts) # 3 THEN Throw("Invalid message format")
  ELSE IF \A i \in 1 .. Len(loadContacts(d)) : loadContacts(d)[i].publicKey # parts[1]
    THEN Throw("Unknown sender")
  ELSE IF ~from_base64(parts[1]).ok THEN from_base64(parts[1])
  ELSE IF ~from_base64(parts[2]).ok THEN from_base64(parts[2])
  ELSE IF ~from_base64(parts[3]).ok THEN from_base64(parts[3])
  ELSE LET plaintext == crypto_box_open_easy(from_base64(parts[3]).val,
                                             from_base64(parts[2]).val,
                                             from_base64(parts[1]).val,
                                             from_base64(myKeys[1].privateKey).val) IN
       IF plaintext.ok THEN Ok(to_string(plaintext.val))
       ELSE Throw("Failed to decrypt message. It may not be intended for you or is corrupted.")

\* decryptMessage, trying the keys of the contacts when the box does not open
\* with the sender key of the token
decryptMessage_triesContacts(d, encryptedMessage) ==
  LET myKeys == loadMyKeys(d)
      parts == split(encryptedMessage)
  IN
  IF myKeys = <<>> THEN Throw("No local keypair found")
  ELSE IF Len(parts) # 3 THEN Throw("Invalid message format")
  ELSE IF ~from_base64(parts[1]).ok THEN from_base64(parts[1])
  ELSE IF ~from_base64(parts[2]).ok THEN from_base64(parts[2])
  ELSE IF ~from_base64(parts[3]).ok THEN from_base64(parts[3])
  ELSE LET open(publicKeyBase64) ==
             IF from_base64(publicKeyBase64).ok
               THEN crypto_box_open_easy(from_base64(parts[3]).val,
                                         from_base64(parts[2]).val,
                                         from_base64(publicKeyBase64).val,
                                         from_base64(myKeys[1].privateKey).val)
               ELSE from_base64(publicKeyBase64)
           opening == {i \in 1 .. Len(loadContacts(d)) :
                         open(loadContacts(d)[i].publicKey).ok}
       IN IF open(parts[1]).ok THEN Ok(to_string(open(parts[1]).val))
          ELSE IF opening # {}
            THEN Ok(to_string(open(loadContacts(d)[CHOOSE i \in opening : TRUE].publicKey).val))
          ELSE Throw("Failed to decrypt message. It may not be intended for you or is corrupted.")

\* decryptMessage, its catch returning an empty plaintext instead of throwing
decryptMessage_swallows(d, encryptedMessage) ==
  LET myKeys == loadMyKeys(d)
      parts == split(encryptedMessage)
  IN
  IF myKeys = <<>> THEN Throw("No local keypair found")
  ELSE IF Len(parts) # 3 THEN Throw("Invalid message format")
  ELSE IF ~from_base64(parts[1]).ok THEN from_base64(parts[1])
  ELSE IF ~from_base64(parts[2]).ok THEN from_base64(parts[2])
  ELSE IF ~from_base64(parts[3]).ok THEN from_base64(parts[3])
  ELSE LET plaintext == crypto_box_open_easy(from_base64(parts[3]).val,
                                             from_base64(parts[2]).val,
                                             from_base64(parts[1]).val,
                                             from_base64(myKeys[1].privateKey).val) IN
       IF plaintext.ok THEN Ok(to_string(plaintext.val)) ELSE Ok(<<>>)

\* decryptMessage on device d
decryptMessage(d, encryptedMessage) ==
  LET myKeys == loadMyKeys(d)
      parts == split(encryptedMessage)
  IN
  IF myKeys = <<>> THEN Throw("No local keypair found")
  ELSE IF Len(parts) # 3 THEN Throw("Invalid message format")
  ELSE
    LET senderPublicKey == from_base64(parts[1])
        nonce == from_base64(parts[2])
        cipher == from_base64(parts[3])
    IN
    IF ~senderPublicKey.ok THEN senderPublicKey
    ELSE IF ~nonce.ok THEN nonce
    ELSE IF ~cipher.ok THEN cipher
    ELSE
      LET plaintext == crypto_box_open_easy(cipher.val, nonce.val,
                                            senderPublicKey.val,
                                            from_base64(myKeys[1].privateKey).val) IN
      IF plaintext.ok THEN Ok(to_string(plaintext.val))
      ELSE Throw("Failed to decrypt message. It may not be intended for you or is corrupted.")

(***************************************************************************)
(* What the user and the environment can feed the handlers.                *)
(***************************************************************************)
\* the public keys the devices display (renderMyKey) and show as QR code
DisplayedKeys == {myKeysItem[e][1].publicKey : e \in {x \in Devices : myKeysItem[x] # <<>>}}

\* contactName.value
NameInputs == {<<>>, <<SP, H>>}

\* contactKey.value: nothing, blanks, a displayed public key, something else
KeyInputs == {<<>>, <<SP>>, <<BANG>>} \cup {<<SP>> \o k : k \in DisplayedKeys}

\* what prompt() returns: null or "" (both falsy, <<>> here), or a name
PromptInputs == {<<>>, <<H>>}

\* the text of a scanned QR code: a displayed public key or any other text,
\* the empty text too
QrTexts == {<<>>, <<BANG>>} \cup DisplayedKeys

\* plainText.value
PlainInputs == {<<SP>>, <<SP, H>>, <<BANG>>}

\* recipientSelect.value: "" (0 here) or the index of an option renderContacts
\* made, one per stored contact (1-based here, 0-based in the page)
SelectOptions(d) == 0 .. Len(loadContacts(d))

\* a byte string of the same length that differs from b in at least one byte
Altered(b) ==
  CASE b.t = "pk" ->
         {PK(b.id, 1 - b.hi)} \cup {PK(j, 0) : j \in (0 .. keysDrawn) \ {b.id}}
    [] b.t = "nonce" -> {N(j) : j \in (0 .. noncesDrawn) \ {b.n}}
    [] b.t = "box" -> {Box(b.m, b.n, b.key, FALSE)}
    [] OTHER -> {}

\* the token t with field i (1..3) replaced by the text f
WithField(t, i, f) ==
  LET p == split(t) IN
  (IF i = 1 THEN f ELSE p[1]) \o <<COLON>> \o
  (IF i = 2 THEN f ELSE p[2]) \o <<COLON>> \o
  (IF i = 3 THEN f ELSE p[3])

\* tokens with one byte of one field changed
Tampered(t) ==
  UNION {{WithField(t, i, to_base64(b)) : b \in Altered(split(t)[i][1].v)} : i \in 1 .. 3}

\* texts made from a token that are no token
Malformed(t) ==
  LET p == split(t) IN
  {p[1] \o <<COLON>> \o p[2],
   t \o <<COLON>> \o p[3],
   WithField(t, 2, <<>>),
   WithField(t, 3, <<>>),
   WithField(t, 1, <<BANG>>),
   WithField(t, 3, p[3] \o <<BANG>>)}

\* tokens with one field replaced by the base64 of bytes of another length:
\* a 24-byte sender key, a 32-byte nonce, 24 bytes that are no box
Resized(t) ==
  LET p == split(t) IN
  {WithField(t, 1, p[2]), WithField(t, 2, p[1]), WithField(t, 3, p[2])}

\* encryptedInput.value: a token some device produced, as it is, pasted with
\* blanks around it, tampered with or mangled, or a text typed by hand
SentTokens == {sent[i].token : i \in 1 .. Len(sent)}

DecryptInputs ==
  {<<>>, <<SP>>, <<H>>, <<COLON, COLON>>, <<H, COLON, H, COLON, H>>}
  \cup SentTokens
  \cup {<<SP>> \o t \o <<SP>> : t \in SentTokens}
  \cup UNION {Tampered(t) : t \in SentTokens}
  \cup UNION {Malformed(t) : t \in SentTokens}
  \cup UNION {Resized(t) : t \in SentTokens}

(***************************************************************************)
(* The record of the last handler call.                                    *)
(*   op   the handler, dev the device it ran on                            *)
(*   out  "ok", "alert" (an input check of the handler refused the call)   *)
(*        or "error" (an exception reached the handler's catch)            *)
(*   msg  the alert text or the exception's message                        *)
(*   val  the token or the plaintext of an "ok" call                       *)
(***************************************************************************)
NoCall == [op |-> "none", dev |-> "", out |-> "ok", msg |-> "", val |-> <<>>]

Call(op, d) == [NoCall EXCEPT !.op = op, !.dev = d]
Alert(call, msg) == [call EXCEPT !.out = "alert", !.msg = msg]
Caught(call, msg) == [call EXCEPT !.out = "error", !.msg = msg]
Done(call, val) == [call EXCEPT !.val = val]

TotalContacts == LET RECURSIVE Sum(_)
                     Sum(S) == IF S = {} THEN 0
                               ELSE LET x == CHOOSE y \in S : TRUE
                                    IN Len(loadContacts(x)) + Sum(S \ {x})
                 IN Sum(Devices)

Init ==
  /\ scope \in {MsgScope, BookScope}
  /\ myKeysItem = [d \in Devices |-> <<>>]
  /\ contactsItem = [d \in Devices |-> <<>>]
  /\ html5QrCode = [d \in Devices |-> 0]
  /\ stopping = [d \in Devices |-> {}]
  /\ keysDrawn = 0
  /\ noncesDrawn = 0
  /\ scans = 0
  /\ sent = <<>>
  /\ oldKeys = [d \in Devices |-> {}]
  /\ sessionAdds = <<>>
  /\ last = NoCall

(***************************************************************************)
(* Handlers.                                                               *)
(***************************************************************************)
\* the keypair number of a stored identity
KeyId(keys) == from_base64(keys.publicKey).val.id

\* generateBtn.onclick, merging the new keypair into the stored one: a
\* stored private key is kept
generateBtn_onclick_merges(d) ==
  /\ keysDrawn < scope.keys
  /\ LET keys == generateKeyPair(keysDrawn + 1) IN
     /\ myKeysItem' = [myKeysItem EXCEPT ![d] =
                         IF loadMyKeys(d) = <<>> THEN saveMyKeys(keys)
                         ELSE saveMyKeys([keys EXCEPT !.privateKey =
                                                  loadMyKeys(d)[1].privateKey])]
     /\ keysDrawn' = keysDrawn + 1
     /\ oldKeys' = [oldKeys EXCEPT ![d] =
                      IF loadMyKeys(d) = <<>> THEN @ ELSE @ \cup {KeyId(loadMyKeys(d)[1])}]
     /\ last' = Call("generate", d)
  /\ UNCHANGED <<scope, contactsItem, html5QrCode, stopping, noncesDrawn, scans, sent,
                 sessionAdds>>

\* generateBtn.onclick
generateBtn_onclick(d) ==
  /\ keysDrawn < scope.keys
  /\ LET keys == generateKeyPair(keysDrawn + 1) IN
     /\ myKeysItem' = [myKeysItem EXCEPT ![d] = saveMyKeys(keys)]
     /\ keysDrawn' = keysDrawn + 1
     /\ oldKeys' = [oldKeys EXCEPT ![d] =
                      IF loadMyKeys(d) = <<>> THEN @ ELSE @ \cup {KeyId(loadMyKeys(d)[1])}]
     /\ last' = Call("generate", d)
  /\ UNCHANGED <<scope, contactsItem, html5QrCode, stopping, noncesDrawn, scans, sent,
                 sessionAdds>>

\* the contact list after contacts.unshift({ name, publicKey })
unshift(contacts, name, publicKey) ==
  <<[name |-> name, publicKey |-> publicKey]>> \o contacts

\* the contact list after contacts.push({ name, publicKey })
push(contacts, name, publicKey) == Append(contacts, [name |-> name, publicKey |-> publicKey])

\* addContactBtn.onclick: does it store a contact
addContactAccepts(nameIn, keyIn) == trim(nameIn) # <<>> /\ trim(keyIn) # <<>>

\* addContactBtn.onclick
addContactBtn_onclick(d, nameIn, keyIn) ==
  /\ IF ~addContactAccepts(nameIn, keyIn)
       THEN /\ last' = Alert(Call("addContact", d), "Name and public key are required")
            /\ UNCHANGED contactsItem
       ELSE /\ TotalContacts < scope.contacts
            /\ contactsItem' = [contactsItem EXCEPT ![d] =
                 saveContacts(push(loadContacts(d), trim(nameIn), trim(keyIn)))]
            /\ last' = Call("addContact", d)
  /\ UNCHANGED <<scope, myKeysItem, html5QrCode, stopping, keysDrawn, noncesDrawn, scans,
                 sent, oldKeys, sessionAdds>>

\* what html5QrCode.stop() and html5QrCode.clear() throw when html5QrCode
\* is null
NullScanner == "Cannot read properties of null"

\* scanQrBtn.onclick: stops the scanner html5QrCode refers to and sets the
\* variable to null while stop() is pending, or makes and starts a scanner
scanQrBtn_onclick(d) ==
  /\ IF html5QrCode[d] # 0
       THEN /\ stopping' = [stopping EXCEPT ![d] = @ \cup {html5QrCode[d]}]
            /\ html5QrCode' = [html5QrCode EXCEPT ![d] = 0]
            /\ UNCHANGED <<scans, sessionAdds>>
       ELSE /\ scans < scope.scans
            /\ html5QrCode' = [html5QrCode EXCEPT ![d] = scans + 1]
            /\ scans' = scans + 1
            /\ sessionAdds' = Append(sessionAdds, 0)
            /\ UNCHANGED stopping
  /\ last' = Call("scanToggle", d)
  /\ UNCHANGED <<scope, myKeysItem, contactsItem, keysDrawn, noncesDrawn, sent, oldKeys>>

\* the scanners of a device that can still deliver a decoded text: the one
\* html5QrCode refers to, and those whose stop() has not completed (a decode
\* in flight when stop() is called is still delivered)
Scanning(d) == ({html5QrCode[d]} \ {0}) \cup stopping[d]

\* the decode-success callback: does it store a contact
scanAccepts(name, decodedText) == name # <<>>

\* the decode-success callback scanQrBtn.onclick hands to the scanner,
\* called by the scanner inst
scanSuccess(d, inst, name, decodedText) ==
  /\ inst \in Scanning(d)
  /\ IF ~scanAccepts(name, decodedText)
       THEN /\ last' = Alert(Call("scanSuccess", d), "Name required")
            /\ UNCHANGED <<contactsItem, html5QrCode, stopping, sessionAdds>>
       ELSE /\ TotalContacts < scope.contacts
            /\ contactsItem' = [contactsItem EXCEPT ![d] =
                 saveContacts(push(loadContacts(d), name, decodedText))]
            /\ sessionAdds' = [sessionAdds EXCEPT ![inst] = @ + 1]
            /\ IF html5QrCode[d] # 0
                 THEN /\ stopping' = [stopping EXCEPT ![d] = @ \cup {html5QrCode[d]}]
                      /\ html5QrCode' = [html5QrCode EXCEPT ![d] = 0]
                      /\ last' = Call("scanSuccess", d)
                 ELSE /\ UNCHANGED <<html5QrCode, stopping>>
                      /\ last' = Caught(Call("scanSuccess", d), NullScanner)
  /\ UNCHANGED <<scope, myKeysItem, keysDrawn, noncesDrawn, scans, sent, oldKeys>>

\* the scanner that was stopped and the scanner clear() was applied to
Cleared(inst, target) == <<[stopped |-> inst, cleared |-> target]>>

\* stop() of the scanner inst completes: () => html5QrCode.clear() runs,
\* reading the variable html5QrCode as it is then
stopCompleted(d, inst) ==
  /\ inst \in stopping[d]
  /\ stopping' = [stopping EXCEPT ![d] = @ \ {inst}]
  /\ last' = IF html5QrCode[d] = 0 THEN Caught(Call("stopped", d), NullScanner)
             ELSE Done(Call("stopped", d), Cleared(inst, html5QrCode[d]))
  /\ UNCHANGED <<scope, myKeysItem, contactsItem, html5QrCode, keysDrawn, noncesDrawn,
                 scans, sent, oldKeys, sessionAdds>>

\* encryptBtn.onclick: does the call get as far as randombytes_buf
drawsNonce(d, selectedIndex, plain) ==
  /\ selectedIndex # 0
  /\ trim(plain) # <<>>
  /\ loadMyKeys(d) # <<>>
  /\ from_base64(loadContacts(d)[selectedIndex].publicKey).ok

\* what reading contact.publicKey throws when contacts[selectedIndex] is
\* undefined
UndefinedContact == "Cannot read properties of undefined (reading 'publicKey')"

\* encryptBtn.onclick without its check of recipientSelect.value
encryptCall_skipsSelectCheck(d, selectedIndex, plain, nonce) ==
  LET call == Call("encrypt", d)
      message == trim(plain)
  IN
  IF message = <<>> THEN Alert(call, "Type a message first")
  ELSE IF selectedIndex \notin 1 .. Len(loadContacts(d)) THEN Caught(call, UndefinedContact)
  ELSE LET contact == loadContacts(d)[selectedIndex]
           encrypted == encryptMessage(d, contact.publicKey, message, nonce)
       IN IF encrypted.ok THEN Done(call, encrypted.val)
          ELSE Caught(call, encrypted.err)

\* encryptBtn.onclick: what the call ends with, nonce being what
\* randombytes_buf returns if the call gets that far
encryptCall(d, selectedIndex, plain, nonce) ==
  LET call == Call("encrypt", d)
      message == trim(plain)
  IN
  IF selectedIndex = 0 THEN Alert(call, "Select a recipient first")
  ELSE IF message = <<>> THEN Alert(call, "Type a message first")
  ELSE IF selectedIndex \notin 1 .. Len(loadContacts(d)) THEN Caught(call, UndefinedContact)
  ELSE LET contact == loadContacts(d)[selectedIndex]
           encrypted == encryptMessage(d, contact.publicKey, message, nonce)
       IN IF encrypted.ok THEN Done(call, encrypted.val)
          ELSE Caught(call, encrypted.err)

\* encryptBtn.onclick
encryptBtn_onclick(d, selectedIndex, plain) ==
  LET result == encryptCall(d, selectedIndex, plain, N(noncesDrawn + 1)) IN
  /\ drawsNonce(d, selectedIndex, plain) => noncesDrawn < scope.nonces
  /\ noncesDrawn' = IF drawsNonce(d, selectedIndex, plain) THEN noncesDrawn + 1
                    ELSE noncesDrawn
  /\ last' = result
  /\ sent' = IF result.out = "ok"
               THEN Append(sent, [token |-> result.val, dev |-> d, plain |-> plain,
                                  to |-> loadContacts(d)[selectedIndex].publicKey])
               ELSE sent
  /\ UNCHANGED <<scope, myKeysItem, contactsItem, html5QrCode, stopping, keysDrawn, scans,
                 oldKeys, sessionAdds>>

\* decryptBtn.onclick: what the call ends with
decryptCall(d, pasted) ==
  LET call == Call("decrypt", d)
      encryptedText == trim(pasted)
  IN
  IF encryptedText = <<>> THEN Alert(call, "Paste an encrypted message first")
  ELSE LET decrypted == decryptMessage(d, encryptedText) IN
       IF decrypted.ok THEN Done(call, decrypted.val)
       ELSE Caught(call, decrypted.err)

\* what decryptBtn.onclick assigns to decryptedOutput.innerText, the element
\* a decrypted plaintext is shown in and copyDecryptedBtn copies from: the
\* plaintext in the try, err.message in the catch, nothing after an alert
\* (<<>>: the element keeps its text)
decryptedOutput_innerText(call) ==
  IF call.out = "ok" THEN <<call.val>>
  ELSE IF call.out = "error" THEN <<call.msg>>
  ELSE <<>>

\* decryptBtn.onclick, storing the sender of a token it opened as a contact
decryptBtn_onclick_savesSender(d, pasted) ==
  /\ last' = decryptCall(d, pasted)
  /\ contactsItem' = IF decryptCall(d, pasted).out = "ok"
                       THEN [contactsItem EXCEPT ![d] =
                               saveContacts(push(loadContacts(d), <<H>>,
                                                 split(trim(pasted))[1]))]
                       ELSE contactsItem
  /\ UNCHANGED <<scope, myKeysItem, html5QrCode, stopping, keysDrawn, noncesDrawn,
                 scans, sent, oldKeys, sessionAdds>>

\* decryptBtn.onclick
decryptBtn_onclick(d, pasted) ==
  /\ last' = decryptCall(d, pasted)
  /\ UNCHANGED <<scope, myKeysItem, contactsItem, html5QrCode, stopping, keysDrawn,
                 noncesDrawn, scans, sent, oldKeys, sessionAdds>>

Next ==
  \/ \E d \in Devices : generateBtn_onclick(d)
  \/ \E d \in Devices : \E nameIn \in NameInputs : \E keyIn \in KeyInputs :
       addContactBtn_onclick(d, nameIn, keyIn)
  \/ \E d \in Devices : scanQrBtn_onclick(d)
  \/ \E d \in Devices : \E inst \in Scanning(d) : \E name \in PromptInputs :
       \E decodedText \in QrTexts : scanSuccess(d, inst, name, decodedText)
  \/ \E d \in Devices : \E inst \in stopping[d] : stopCompleted(d, inst)
  \/ \E d \in Devices : \E selectedIndex \in SelectOptions(d) : \E plain \in PlainInputs :
       encryptBtn_onclick(d, selectedIndex, plain)
  \/ \E d \in Devices : \E pasted \in DecryptInputs : decryptBtn_onclick(d, pasted)

Spec == Init /\ [][Next]_vars

(***************************************************************************)
(* The spec's vocabulary.                                                  *)
(*   encryptFor   is encryptBtn.onclick, decryptToken decryptBtn.onclick,  *)
(*   addContact   addContactBtn.onclick and the scanner's decode callback, *)
(*   generateIdentity generateBtn.onclick.                                 *)
(* An error condition of the spec is the message the handler ends with.    *)
(***************************************************************************)
NoIdentity == "No local keypair found"
MalformedEnvelope == "Invalid message format"
DecryptionFailed ==
  "Failed to decrypt message. It may not be intended for you or is corrupted."

Fails(call, condition) == call.out = "error" /\ call.msg = condition
Returns(call, val) == call.out = "ok" /\ call.val = val

HasIdentity(d) == loadMyKeys(d) # <<>>
\* the device d holds the keypair the public key text pk belongs to
Holds(d, pk) == HasIdentity(d) /\ loadMyKeys(d)[1].publicKey = pk
\* the public key text a token carries as its sender
SenderOf(token) == split(token)[1]
Sent == {sent[i] : i \in 1 .. Len(sent)}

(***************************************************************************)
(* C1.  Round trip: a token a device sealed for a contact key, opened on   *)
(* a device that holds the keypair of that key, gives the plaintext.       *)
(***************************************************************************)
\* C1 as stated: the plaintext comes back exactly as it was typed
C1_RoundTripExact ==
  \A s \in Sent : \A d \in Devices \ {s.dev} :
    Holds(d, s.to) => Returns(decryptCall(d, s.token), s.plain)

\* C1 as amended: decryptToken returns the plaintext with the leading and
\* trailing whitespace removed, which encryptFor strips before sealing
C1_RoundTripTrimmed ==
  \A s \in Sent : \A d \in Devices \ {s.dev} :
    Holds(d, s.to) => Returns(decryptCall(d, s.token), trim(s.plain))

\* a device other than the sender has opened a token sealed for it
C1_Witness ==
  /\ last.op = "decrypt"
  /\ last.out = "ok"
  /\ \E s \in Sent :
       /\ s.dev # last.dev
       /\ Holds(last.dev, s.to)
       /\ last = decryptCall(last.dev, s.token)
       /\ last.val = trim(s.plain)

(***************************************************************************)
(* C2.  Wrong recipient: a token A sealed for B's key, opened on the       *)
(* device of a third identity (a keypair that is neither B's nor A's),     *)
(* fails with DecryptionFailed.                                            *)
(***************************************************************************)
ThirdParty(d, s) ==
  /\ HasIdentity(d)
  /\ ~Holds(d, s.to)
  /\ ~Holds(d, SenderOf(s.token))

C2_WrongRecipient ==
  \A s \in Sent : \A d \in Devices :
    ThirdParty(d, s) => Fails(decryptCall(d, s.token), DecryptionFailed)

\* a third identity has tried a token that one device sealed for another's key
C2_Witness ==
  /\ last.op = "decrypt"
  /\ \E s \in Sent :
       /\ ThirdParty(last.dev, s)
       /\ s.to # SenderOf(s.token)
       /\ \E b \in Devices : Holds(b, s.to)
       /\ last = decryptCall(last.dev, s.token)

(***************************************************************************)
(* C3.  Tamper detection: a token with one byte of its sender key, its     *)
(* nonce or its ciphertext changed, opened on the intended recipient's     *)
(* device, fails with DecryptionFailed.                                    *)
(***************************************************************************)
C3_TamperDetected ==
  \A s \in Sent : \A d \in Devices \ {s.dev} : \A t \in Tampered(s.token) :
    Holds(d, s.to) => Fails(decryptCall(d, t), DecryptionFailed)

(***************************************************************************)
(* C4.  Envelope malformation: with an identity present, a text that does  *)
(* not split on ':' into exactly 3 non-empty parts, or of which a part is  *)
(* not valid base64, fails with MalformedEnvelope.                         *)
(***************************************************************************)
WellFormed(text) ==
  LET p == split(text) IN
  /\ Len(p) = 3
  /\ \A i \in 1 .. 3 : p[i] # <<>> /\ from_base64(p[i]).ok

C4_MalformedEnvelope ==
  \A d \in Devices : \A text \in DecryptInputs :
    (HasIdentity(d) /\ trim(text) # <<>> /\ ~WellFormed(trim(text)))
      => Fails(decryptCall(d, text), MalformedEnvelope)

NonceOf(token) == split(token)[2]
CipherOf(token) == split(token)[3]

C6_NonceUnique ==
  \A i \in 1 .. Len(sent) : \A j \in 1 .. Len(sent) :
    (i < j /\ SenderOf(sent[i].token) = SenderOf(sent[j].token) /\ sent[i].to = sent[j].to)
      => /\ NonceOf(sent[i].token) # NonceOf(sent[j].token)
         /\ CipherOf(sent[i].token) # CipherOf(sent[j].token)
         /\ \A d \in Devices :
              Holds(d, sent[i].to) =>
                /\ Returns(decryptCall(d, sent[i].token), trim(sent[i].plain))
                /\ Returns(decryptCall(d, sent[j].token), trim(sent[j].plain))

\* one keypair has sealed the same plaintext twice for the same contact key,
\* and the device holding that key has opened one of the two tokens
C6_Witness ==
  /\ Len(sent) = 2
  /\ SenderOf(sent[1].token) = SenderOf(sent[2].token)
  /\ sent[1].to = sent[2].to
  /\ sent[1].plain = sent[2].plain
  /\ last.op = "decrypt"
  /\ last.out = "ok"
  /\ Holds(last.dev, sent[1].to)

(***************************************************************************)
(* C7.  Regeneration overwrites: the stored identity is one whole keypair, *)
(* never one the device held before, and a token sealed to a public key    *)
(* the device held before fails with DecryptionFailed there.               *)
(***************************************************************************)
C7_RegenerationOverwrites ==
  \A d \in Devices :
    HasIdentity(d) =>
      /\ \E id \in (1 .. keysDrawn) \ oldKeys[d] : loadMyKeys(d) = <<generateKeyPair(id)>>
      /\ \A s \in Sent :
           KeyId([publicKey |-> s.to]) \in oldKeys[d]
             => Fails(decryptCall(d, s.token), DecryptionFailed)

\* a device that regenerated its identity has tried a token sealed to its
\* old public key
C7_Witness ==
  /\ last.op = "decrypt"
  /\ \E s \in Sent :
       /\ KeyId([publicKey |-> s.to]) \in oldKeys[last.dev]
       /\ s.dev # last.dev
       /\ last = decryptCall(last.dev, s.token)

(***************************************************************************)
(* C8.  Private key confinement: no secret key of any keypair occurs in a  *)
(* token or in a stored contact; a token is the sender's public key, the   *)
(* nonce and the ciphertext.                                               *)
(***************************************************************************)
SecretTexts == {generateKeyPair(id).privateKey : id \in 1 .. keysDrawn}

\* a secret key's text is part of the text
Leaks(text) == \E i \in 1 .. Len(text) : <<text[i]>> \in SecretTexts

TokenShape(s) ==
  LET p == split(s.token) IN
  /\ Len(p) = 3
  /\ HasIdentity(s.dev) => \/ KeyId([publicKey |-> p[1]]) \in oldKeys[s.dev]
                           \/ p[1] = loadMyKeys(s.dev)[1].publicKey
  /\ from_base64(p[1]).val.t = "pk"
  /\ from_base64(p[2]).val.t = "nonce"
  /\ from_base64(p[3]).val.t = "box"
  /\ ~Leaks(to_string(from_base64(p[3]).val.m))

C8_PrivateKeyConfined ==
  /\ \A s \in Sent : ~Leaks(s.token) /\ TokenShape(s)
  /\ \A d \in Devices : \A i \in 1 .. Len(loadContacts(d)) :
       ~Leaks(loadContacts(d)[i].name) /\ ~Leaks(loadContacts(d)[i].publicKey)

\* a device holding an identity and a contact has produced a token
C8_Witness ==
  /\ last.op = "encrypt"
  /\ last.out = "ok"
  /\ HasIdentity(last.dev)
  /\ loadContacts(last.dev) # <<>>
  /\ \E s \in Sent : s.token = last.val

(***************************************************************************)
(* C9.  Contact validity: every stored contact has a non-empty name and a  *)
(* non-empty public key, whichever path stored it.                         *)
(***************************************************************************)
C9_ContactsValid ==
  \A d \in Devices : \A i \in 1 .. Len(loadContacts(d)) :
    loadContacts(d)[i].name # <<>> /\ loadContacts(d)[i].publicKey # <<>>

(***************************************************************************)
(* C10.  Append-only contact list: empty at first use; a step changes the  *)
(* list of a device only by a successful addContact there, which adds one  *)
(* contact at the end and keeps the entries before it; generateIdentity,   *)
(* encryptFor and decryptToken leave every list as it was.                 *)
(***************************************************************************)
IsAppend(before, after) ==
  /\ Len(after) = Len(before) + 1
  /\ SubSeq(after, 1, Len(before)) = before

ContactsAfter(d) == IF contactsItem'[d] = <<>> THEN <<>> ELSE contactsItem'[d][1]

C10_AppendOnly ==
  /\ \A d \in Devices : loadContacts(d) = <<>>
  /\ [][\A d \in Devices :
          /\ ContactsAfter(d) # loadContacts(d)
               => /\ last'.op \in {"addContact", "scanSuccess"}
                  /\ last'.dev = d
                  /\ last'.out # "alert"
                  /\ contactsItem'[d] # <<>>
                  /\ IsAppend(loadContacts(d), ContactsAfter(d))
          /\ (last'.op \in {"addContact", "scanSuccess"} /\ last'.dev = d /\ last'.out = "ok")
               => IsAppend(loadContacts(d), ContactsAfter(d))
       ]_vars

\* a device has stored the same contact a second time, after the first
C10_Witness ==
  /\ last.op = "addContact"
  /\ last.out = "ok"
  /\ Len(loadContacts(last.dev)) = 2
  /\ loadContacts(last.dev)[1] = loadContacts(last.dev)[2]

(***************************************************************************)
(* C11.  Invalid recipient: with an identity present, encryptFor with an   *)
(* index that is not in the contact list is refused as an invalid          *)
(* recipient, whatever the plaintext; it gives no token and leaves the     *)
(* identity, the contacts and the tokens produced as they were.  The       *)
(* recipient selector offers "" and the indices of the stored contacts, so *)
(* "" is the index outside the list.                                       *)
(***************************************************************************)
InvalidRecipient == "Select a recipient first"

\* an input check of the handler refused the call with this condition
Refused(call, condition) == call.out = "alert" /\ call.msg = condition

C11_InvalidRecipient ==
  /\ [](\A d \in Devices : \A sel \in SelectOptions(d) : \A plain \in PlainInputs :
          (HasIdentity(d) /\ sel \notin 1 .. Len(loadContacts(d)))
            => /\ Refused(encryptCall(d, sel, plain, N(noncesDrawn + 1)), InvalidRecipient)
               /\ encryptCall(d, sel, plain, N(noncesDrawn + 1)).val = <<>>)
  /\ [][(last'.op = "encrypt" /\ last'.out # "ok")
          => UNCHANGED <<myKeysItem, contactsItem, sent>>]_vars

\* a device with an identity and a contact was asked to seal with no
\* recipient selected
C11_Witness ==
  /\ last.op = "encrypt"
  /\ HasIdentity(last.dev)
  /\ loadContacts(last.dev) # <<>>
  /\ Refused(last, InvalidRecipient)

(***************************************************************************)
(* C12.  Sealing and opening have no side effect on the stores: a call of  *)
(* encryptFor or decryptToken, whatever it ends with, leaves the stored    *)
(* identity and the stored contact list of every device as they were.      *)
(***************************************************************************)
C12_NoSideEffects ==
  [][last'.op \in {"encrypt", "decrypt"} => UNCHANGED <<myKeysItem, contactsItem>>]_vars

\* a device with an identity and a contact has run an encryptFor that ended
\* with an exception
C12_Witness ==
  /\ last.op = "encrypt"
  /\ last.out = "error"
  /\ HasIdentity(last.dev)
  /\ loadContacts(last.dev) # <<>>

(***************************************************************************)
(* C13.  No plaintext-shaped value on failure: a decryptToken that fails   *)
(* delivers nothing in the place where a decrypted plaintext is delivered. *)
(***************************************************************************)
C13_NoPlaintextOnFailure ==
  \A d \in Devices : \A text \in DecryptInputs :
    decryptCall(d, text).out # "ok"
      => Len(decryptedOutput_innerText(decryptCall(d, text))) = 0

(***************************************************************************)
(* C14.  Token wire format: a token a successful encryptFor returns has    *)
(* exactly two ':' between three non-empty base64 fields, which are a      *)
(* public key, a nonce and a box in that order, and its first field is the *)
(* public key of the identity stored on the device when it is called.      *)
(***************************************************************************)
\* the three-field format
ThreeFields(token) ==
  LET p == split(token) IN
  /\ Cardinality({i \in 1 .. Len(token) : token[i] = COLON}) = 2
  /\ Len(p) = 3
  /\ \A i \in 1 .. 3 : p[i] # <<>> /\ from_base64(p[i]).ok
  /\ from_base64(p[1]).val.t = "pk"
  /\ from_base64(p[2]).val.t = "nonce"
  /\ from_base64(p[3]).val.t = "box"

C14_TokenFormat ==
  /\ \A s \in Sent : ThreeFields(s.token)
  /\ \A d \in Devices : \A sel \in SelectOptions(d) : \A plain \in PlainInputs :
       LET call == encryptCall(d, sel, plain, N(noncesDrawn + 1)) IN
       call.out = "ok"
         => /\ HasIdentity(d)
            /\ ThreeFields(call.val)
            /\ SenderOf(call.val) = loadMyKeys(d)[1].publicKey

\* a device that has regenerated its identity has produced a token, which
\* names its current public key
C14_Witness ==
  /\ last.op = "encrypt"
  /\ last.out = "ok"
  /\ oldKeys[last.dev] # {}
  /\ Holds(last.dev, SenderOf(last.val))
  /\ last.val \in SentTokens

(***************************************************************************)
(* C15.  Opaque decryption failure: with an identity present, a text that  *)
(* parses as three base64 fields either opens or ends with the one         *)
(* DecryptionFailed outcome, whatever made it fail: another key pairing, a *)
(* changed ciphertext, a nonce or a sender key of the wrong length (an     *)
(* empty one too), a ciphertext that is no box.                            *)
(***************************************************************************)
ParsesAsThree(text) ==
  /\ Len(split(text)) = 3
  /\ \A i \in 1 .. 3 : from_base64(split(text)[i]).ok

C15_OpaqueFailure ==
  \A d \in Devices : \A text \in DecryptInputs :
    (HasIdentity(d) /\ trim(text) # <<>> /\ ParsesAsThree(trim(text)))
      => \/ decryptCall(d, text).out = "ok"
         \/ decryptCall(d, text) = Caught(Call("decrypt", d), DecryptionFailed)

\* the intended recipient has tried a token of which a field was replaced by
\* bytes of another length
C15_Witness ==
  /\ last.op = "decrypt"
  /\ Fails(last, DecryptionFailed)
  /\ \E s \in Sent :
       /\ s.dev # last.dev
       /\ Holds(last.dev, s.to)
       /\ \E t \in Resized(s.token) : last = decryptCall(last.dev, t)

(***************************************************************************)
(* C16.  open is deterministic and idempotent.  In every reachable state   *)
(* the outcome of decryptToken on a device is the function below of the    *)
(* identity stored on that device and of the text alone: of a token some   *)
(* device produced (s.to and s.plain are fixed when it is produced), of a  *)
(* typed text.  So the outcome is the same in any two states in which the  *)
(* device stores the same identity, whatever was added, sealed or opened   *)
(* between them, whether the sender still has the identity it sealed with, *)
(* and whether the device has a contact for the sender.                    *)
(***************************************************************************)
OutcomeFor(d, s) ==
  IF ~HasIdentity(d) THEN Caught(Call("decrypt", d), NoIdentity)
  ELSE IF Holds(d, s.to) THEN Done(Call("decrypt", d), trim(s.plain))
  ELSE Caught(Call("decrypt", d), DecryptionFailed)

C16_DeterministicOpen ==
  \A d \in Devices :
    /\ \A s \in Sent : decryptCall(d, s.token) = OutcomeFor(d, s)
    /\ decryptCall(d, <<H>>) =
         Caught(Call("decrypt", d),
                IF HasIdentity(d) THEN MalformedEnvelope ELSE NoIdentity)

\* a device without contacts has opened a token whose sender has regenerated
\* its identity since
C16_Witness ==
  /\ last.op = "decrypt"
  /\ last.out = "ok"
  /\ loadContacts(last.dev) = <<>>
  /\ \E s \in Sent :
       /\ s.dev # last.dev
       /\ Holds(last.dev, s.to)
       /\ HasIdentity(s.dev)
       /\ ~Holds(s.dev, SenderOf(s.token))
       /\ last = decryptCall(last.dev, s.token)

(***************************************************************************)
(* C17.  A sender cannot open its own outgoing token: on the device that   *)
(* sealed it, still holding the identity it sealed with, a token fails     *)
(* with DecryptionFailed, unless the contact key it was sealed for is the  *)
(* device's own public key, in which case it opens.                        *)
(***************************************************************************)
C17_SenderCannotOpen ==
  \A s \in Sent :
    Holds(s.dev, SenderOf(s.token))
      => IF s.to = SenderOf(s.token)
           THEN Returns(decryptCall(s.dev, s.token), trim(s.plain))
           ELSE Fails(decryptCall(s.dev, s.token), DecryptionFailed)

\* a device has tried the token it sealed for the key of another device
C17_Witness ==
  /\ last.op = "decrypt"
  /\ Fails(last, DecryptionFailed)
  /\ \E s \in Sent :
       /\ s.dev = last.dev
       /\ Holds(s.dev, SenderOf(s.token))
       /\ s.to # SenderOf(s.token)
       /\ \E b \in Devices \ {s.dev} : Holds(b, s.to)
       /\ last = decryptCall(last.dev, s.token)

(***************************************************************************)
(* C18.  One scan, one contact: the decode callbacks of one scanner store  *)
(* at most one contact, also when a callback is delivered after stop() was *)
(* called and before it completed; and a callback that ends with "Failed   *)
(* to add contact" has stored nothing.                                     *)
(***************************************************************************)
C18_OneScanOneContact ==
  /\ [](\A inst \in 1 .. Len(sessionAdds) : sessionAdds[inst] <= 1)
  /\ [][(last'.op = "scanSuccess" /\ last'.out = "error") => UNCHANGED contactsItem]_vars

(***************************************************************************)
(* C19.  Scanner stop / clear ordering: when stop() of a scanner           *)
(* completes, clear() is applied to that scanner: the completion callback  *)
(* does not find html5QrCode null and does not clear another scanner.      *)
(***************************************************************************)
C19_ClearsStoppedScanner ==
  last.op = "stopped"
    => /\ last.out = "ok"
       /\ last.val[1].cleared = last.val[1].stopped
====
